---- MODULE Spec2Model ----
(***************************************************************************)
(* Model of src/src/response_parser.py: the per-fragment dispatcher that   *)
(* parses a streamed chat-completion response.  parse_response is one      *)
(* action; the five strategies are operators applied in ChoiceHandler's    *)
(* order to a context (backend, history, whether_exit).                    *)
(*                                                                         *)
(* A Python str is a sequence of tokens; concatenation is \o.  None is     *)
(* the empty tuple where a list or a str may stand (an optional value is   *)
(* <<>> or <<v>>), and the name NoneName where a function name may stand.  *)
(***************************************************************************)
EXTENDS Integers, Sequences, FiniteSets, TLC

\* Number of chunks handed to parse_response in one behaviour.
MaxFragments == 2
\* Number of keys (role, content, function_call.name,
\* function_call.arguments, non-null finish_reason) one fragment carries.
MaxKeys == 2

VARIABLES
    bot_backend,   \* the BotBackend object (its GPT response log and conversation)
    history,       \* the caller's history: the list returned by the last call
    whether_exit,  \* the flag returned by the last call
    raised,        \* exception the last call propagated to its caller, or "none"
    log,           \* the strategies the last call executed, with the state each left
    events,        \* backend-function events of the last call, in order
    last_chunk,    \* the chunk of the last call
    nfrag,         \* number of calls so far
    nfinish,       \* number of processed fragments with a non-null finish_reason
    seen_content,  \* non-null content deltas before the first finish fragment, in arrival order
    seen_args      \* arguments deltas up to the first finish fragment, in arrival order

vars == <<bot_backend, history, whether_exit, raised, log, events, last_chunk,
          nfrag, nfinish, seen_content, seen_args>>

----------------------------------------------------------------------------
(* Values *)

NoneName == "<None>"
NoneOpt == <<>>
Some(v) == <<v>>

Absent == [k |-> "absent", v |-> <<>>]
Null == [k |-> "null", v |-> <<>>]
Str(s) == [k |-> "str", v |-> s]

OPEN == "{\"code\": \""
CLOSE == "\"}"

ContentDeltas == {<<"a">>, <<"b">>}
ArgDeltas == {<<OPEN, "x">>, <<"y", CLOSE>>}
FunctionNames == {"python", "execute_code", "no_such_function"}
FinishReasons == {"stop", "function_call"}

\* bot_backend.jupyter_kernel.available_functions (its keys)
available_functions == {"execute_code", "python"}

Deltas ==
    [role : {"absent", "assistant"},
     content : {Absent, Null} \cup {Str(s) : s \in ContentDeltas},
     name : {"absent"} \cup FunctionNames,
     arguments : {Absent} \cup {Str(s) : s \in ArgDeltas}]

NumKeys(choice) ==
    (IF choice.delta.role # "absent" THEN 1 ELSE 0)
    + (IF choice.delta.content.k # "absent" THEN 1 ELSE 0)
    + (IF choice.delta.name # "absent" THEN 1 ELSE 0)
    + (IF choice.delta.arguments.k # "absent" THEN 1 ELSE 0)
    + (IF choice.finish_reason # "null" THEN 1 ELSE 0)

Choices ==
    {c \in [delta : Deltas, finish_reason : {"null"} \cup FinishReasons] :
        NumKeys(c) <= MaxKeys}

\* chunk['choices'] is empty or holds the choice that is handled
Chunks == {<<>>} \cup {<<c>> : c \in Choices}

----------------------------------------------------------------------------
(* functional.py / bot_backend.py: the collaborators the parser calls *)

FreshLog ==
    [assistant_role_name |-> <<>>,
     content |-> <<>>,
     function_name |-> NoneName,
     function_args_str |-> <<>>,
     display_code_block |-> <<>>,
     bot_history |-> NoneOpt]

set_assistant_role_name(bb, role) == [bb EXCEPT !.assistant_role_name = <<role>>]

add_content(bb, content) == [bb EXCEPT !.content = @ \o content]

set_function_name(bb, name) == [bb EXCEPT !.function_name = name]

copy_current_bot_history(bb, h) == [bb EXCEPT !.bot_history = Some(h)]

add_function_args_str(bb, s) == [bb EXCEPT !.function_args_str = @ \o s]

update_display_code_block(bb, block) == [bb EXCEPT !.display_code_block = block]

update_finish_reason(bb, fr) == [bb EXCEPT !.finish_reason = fr]

add_gpt_response_content_message(bb) ==
    [bb EXCEPT !.conversation = Append(@, [role |-> bb.assistant_role_name, content |-> bb.content])]

add_function_call_response_message(bb, text) ==
    [bb EXCEPT !.conversation =
        Append(@, [role |-> <<"function">>, content |-> text])]

reset_gpt_response_log_values(bb) ==
    [k \in DOMAIN bb |-> IF k \in DOMAIN FreshLog THEN FreshLog[k] ELSE bb[k]]

add_function_response_to_bot_history(h, display) == Append(h, <<"None", display>>)

IsCodeText(s) == \A i \in 1..Len(s) : s[i] \notin {OPEN, CLOSE}

\* parse_json(function_args, finished): the code of {"code": "..."}, or None
parse_json(s, finished) ==
    IF Len(s) = 0 \/ s[1] # OPEN THEN NoneOpt
    ELSE IF finished
    THEN IF Len(s) >= 2 /\ s[Len(s)] = CLOSE /\ IsCodeText(SubSeq(s, 2, Len(s) - 1))
         THEN Some(SubSeq(s, 2, Len(s) - 1))
         ELSE NoneOpt
    ELSE LET body == IF s[Len(s)] = CLOSE THEN SubSeq(s, 2, Len(s) - 1)
                     ELSE SubSeq(s, 2, Len(s))
         IN IF Len(s) >= 2 /\ IsCodeText(body) THEN Some(body) ELSE NoneOpt

----------------------------------------------------------------------------
(* Display strings *)

WorkingBlock(mark, code_str) == <<mark, "Working: (python", "\n">> \o code_str \o <<"\n", ")">>

NotExistMessage(name) ==
    <<"GPT attempted to call a function that does not exist: ", name, "\n ">>

WrongArgsMessage(args) == <<"GPT generate wrong function args: ">> \o args

BackendErrorMessage(e) == <<"Backend error: ", e>>

\* history[-1][1] = text
SetLastAnswer(h, text) == [h EXCEPT ![Len(h)] = <<h[Len(h)][1], text>>]

\* history[-1][1] += text
ExtendLastAnswer(h, text) == [h EXCEPT ![Len(h)] = <<h[Len(h)][1], h[Len(h)][2] \o text>>]

\* the function of available_functions, called with code_str
FunctionText(code_str) == <<"text_to_gpt(">> \o code_str \o <<")">>
FunctionDisplay(code_str) == <<"content_to_display(">> \o code_str \o <<")">>

----------------------------------------------------------------------------
(* The strategies.  A context ctx is the loop state of ChoiceHandler.handle:
   bb (the backend), history and whether_exit (the loop's local variables),
   aliased (the local history is still the list object the caller passed),
   passed (that list object, as mutated in place), raised (an exception
   leaving execute), events (backend-function events) and extracted (the
   argument string get_code_str read). *)

RoleSupport(choice) == choice.delta.role # "absent"

RoleExecute(choice, ctx) ==
    [ctx EXCEPT !.bb = set_assistant_role_name(ctx.bb, choice.delta.role)]

ContentSupport(choice) == choice.delta.content.k = "str"

\* Mutant: the history shows the delta instead of the accumulated content.
ContentExecuteShowsDelta(choice, ctx) ==
    LET bb1 == add_content(ctx.bb, choice.delta.content.v)
        h1 == SetLastAnswer(ctx.history, choice.delta.content.v)
    IN [ctx EXCEPT !.bb = bb1, !.history = h1,
                   !.passed = IF ctx.aliased THEN h1 ELSE @]

ContentExecute(choice, ctx) ==
    LET bb1 == add_content(ctx.bb, choice.delta.content.v)
        h1 == SetLastAnswer(ctx.history, bb1.content)
    IN [ctx EXCEPT !.bb = bb1, !.history = h1,
                   !.passed = IF ctx.aliased THEN h1 ELSE @]

NameSupport(choice) == choice.delta.name # "absent"

\* Mutant: an unavailable function is reported without asking to exit.
NameExecuteNoExit(choice, ctx) ==
    LET bb1 == set_function_name(ctx.bb, choice.delta.name)
        bb2 == copy_current_bot_history(bb1, ctx.history)
    IN IF bb2.function_name \notin available_functions
       THEN LET h1 == Append(ctx.history, <<"None", NotExistMessage(bb2.function_name)>>)
            IN [ctx EXCEPT !.bb = bb2, !.history = h1,
                           !.passed = IF ctx.aliased THEN h1 ELSE @]
       ELSE [ctx EXCEPT !.bb = bb2]

NameExecute(choice, ctx) ==
    LET bb1 == set_function_name(ctx.bb, choice.delta.name)
        bb2 == copy_current_bot_history(bb1, ctx.history)
    IN IF bb2.function_name \notin available_functions
       THEN LET h1 == Append(ctx.history, <<"None", NotExistMessage(bb2.function_name)>>)
            IN [ctx EXCEPT !.bb = bb2, !.history = h1,
                           !.passed = IF ctx.aliased THEN h1 ELSE @,
                           !.whether_exit = TRUE]
       ELSE [ctx EXCEPT !.bb = bb2]

ArgumentsSupport(choice) == choice.delta.arguments.k # "absent"

\* lines 84-88 and 92-98: show temp_code_str on a copy of the snapshot
ShowWorking(bb, ctx, temp_code_str) ==
    LET bb1 == update_display_code_block(bb, WorkingBlock("red", temp_code_str))
    IN IF bb1.bot_history = NoneOpt
       THEN \* copy.deepcopy(None)[-1]: TypeError, not caught in this strategy
            [ctx EXCEPT !.bb = bb1, !.aliased = FALSE, !.raised = "TypeError"]
       ELSE [ctx EXCEPT !.bb = bb1, !.aliased = FALSE,
                        !.history = ExtendLastAnswer(bb1.bot_history[1],
                                                     bb1.display_code_block)]

\* Mutant: the delta replaces the accumulated argument string.
ArgumentsExecuteOverwrites(choice, ctx) ==
    LET bb1 == [ctx.bb EXCEPT !.function_args_str = choice.delta.arguments.v]
    IN IF bb1.function_name = "python"
       THEN ShowWorking(bb1, ctx, bb1.function_args_str)
       ELSE LET temp_code_str == parse_json(bb1.function_args_str, FALSE)
            IN IF temp_code_str # NoneOpt
               THEN ShowWorking(bb1, ctx, temp_code_str[1])
               ELSE [ctx EXCEPT !.bb = bb1]

ArgumentsExecute(choice, ctx) ==
    LET bb1 == add_function_args_str(ctx.bb, choice.delta.arguments.v)
    IN IF bb1.function_name = "python"
       THEN ShowWorking(bb1, ctx, bb1.function_args_str)
       ELSE LET temp_code_str == parse_json(bb1.function_args_str, FALSE)
            IN IF temp_code_str # NoneOpt
               THEN ShowWorking(bb1, ctx, temp_code_str[1])
               ELSE [ctx EXCEPT !.bb = bb1]

FinishReasonSupport(choice) == choice.finish_reason # "null"

\* `raise json.JSONDecodeError` raises the class: Python instantiates it with
\* no arguments, and JSONDecodeError.__init__(msg, doc, pos) then raises
\* TypeError in its place.
RaiseJSONDecodeError == "TypeError"

\* Mutant: no special case for the function name 'python'.
get_code_str_always_json(bb) ==
    LET code_str == parse_json(bb.function_args_str, TRUE)
    IN IF code_str = NoneOpt
       THEN [exc |-> RaiseJSONDecodeError, code_str |-> <<>>]
       ELSE [exc |-> "none", code_str |-> code_str[1]]

get_code_str(bb) ==
    IF bb.function_name = "python"
    THEN [exc |-> "none", code_str |-> bb.function_args_str]
    ELSE LET code_str == parse_json(bb.function_args_str, TRUE)
         IN IF code_str = NoneOpt
            THEN [exc |-> RaiseJSONDecodeError, code_str |-> <<>>]
            ELSE [exc |-> "none", code_str |-> code_str[1]]

\* exceptions that `except Exception` (line 144) does not catch
NotAnException == {"BaseException"}

\* The except clauses of lines 137-147, entered with exception e while the
\* local history is h (None when the snapshot was None).  An exception that
\* neither clause catches leaves execute.
Except(e, bb, h, ctx) ==
    IF e \in NotAnException
    THEN [ctx EXCEPT !.bb = bb, !.raised = e]
    ELSE IF h = NoneOpt
    THEN \* None.append: AttributeError raised inside the handler
         [ctx EXCEPT !.bb = bb, !.aliased = FALSE, !.raised = "AttributeError"]
    ELSE LET entry == IF e = "JSONDecodeError"
                      THEN <<"None", WrongArgsMessage(bb.function_args_str)>>
                      ELSE <<"None", BackendErrorMessage(e)>>
             h1 == Append(h[1], entry)
         IN [ctx EXCEPT !.bb = bb, !.history = h1, !.whether_exit = TRUE,
                        !.passed = IF ctx.aliased THEN h1 ELSE @]

\* Mutant: the response log is not reset before returning.
ReturnWithoutReset(bb, h, ctx) == [ctx EXCEPT !.bb = bb, !.history = h]

\* line 149 and the return of line 151
ResetAndReturn(bb, h, ctx) ==
    [ctx EXCEPT !.bb = reset_gpt_response_log_values(bb), !.history = h]

\* What the unpacking of line 126 raises for a value the function returned:
\* ValueError for an iterable of another length, TypeError for a value that
\* is not iterable (None), and whatever iterating the value raises.
UnpackRaises ==
    [bad_return |-> "ValueError", bad_return_none |-> "TypeError",
     iter_Exception |-> "Exception", iter_JSONDecodeError |-> "JSONDecodeError",
     iter_BaseException |-> "BaseException"]

\* What the called function may do: return a pair (text_to_gpt,
\* content_to_display), return a value whose unpacking raises, or raise an
\* Exception, a json.JSONDecodeError or a BaseException that is no Exception.
FunctionOutcomes ==
    {"returned"} \cup DOMAIN UnpackRaises
       \cup {"Exception", "JSONDecodeError", "BaseException"}

\* lines 126-135: call the function, unpack what it returned and record its
\* response; call and unpacking are inside the try, so what they raise goes
\* to the clauses of lines 137-147
CallFunction(bb, h, code_str, ctx, outcome) ==
    IF bb.function_name \notin available_functions
    THEN Except("KeyError", bb, Some(h), [ctx EXCEPT !.aliased = FALSE])
    ELSE LET invoke == [ev |-> "invoke", fn |-> bb.function_name, code |-> code_str]
             ret == [ev |-> "returned", fn |-> bb.function_name, code |-> code_str]
             exc == [ev |-> "raised", fn |-> bb.function_name, code |-> code_str]
             msg == [ev |-> "response_message", fn |-> bb.function_name, code |-> code_str]
         IN CASE outcome = "returned" ->
                   ResetAndReturn(
                      add_function_call_response_message(bb, FunctionText(code_str)),
                      add_function_response_to_bot_history(h, FunctionDisplay(code_str)),
                      [ctx EXCEPT !.aliased = FALSE,
                                  !.events = @ \o <<invoke, ret, msg>>])
              [] outcome \in DOMAIN UnpackRaises ->
                   Except(UnpackRaises[outcome], bb, Some(h),
                          [ctx EXCEPT !.aliased = FALSE,
                                      !.events = @ \o <<invoke, ret>>])
              [] OTHER ->
                   Except(outcome, bb, Some(h),
                          [ctx EXCEPT !.aliased = FALSE,
                                      !.events = @ \o <<invoke, exc>>])

\* lines 115-147: the try block and its handlers
FunctionCallBranch(bb, ctx, outcome) ==
    LET r == get_code_str(bb)
        ctx1 == [ctx EXCEPT !.extracted = Some(bb.function_args_str)]
    IN IF r.exc # "none"
       THEN Except(r.exc, bb, Some(ctx.history), ctx1)
       ELSE LET bb1 == update_display_code_block(bb, WorkingBlock("green", r.code_str))
            IN IF bb1.bot_history = NoneOpt
               THEN \* copy.deepcopy(None)[-1]: TypeError, caught by line 144
                    Except("TypeError", bb1, NoneOpt, ctx1)
               ELSE CallFunction(bb1,
                                 ExtendLastAnswer(bb1.bot_history[1], bb1.display_code_block),
                                 r.code_str, ctx1, outcome)

\* Mutant: every finish_reason is treated as a function call.
FinishReasonExecuteAnyReason(choice, ctx, outcome) ==
    LET bb1 == IF ctx.bb.content # <<>>
               THEN add_gpt_response_content_message(ctx.bb)
               ELSE ctx.bb
        bb2 == update_finish_reason(bb1, choice.finish_reason)
    IN FunctionCallBranch(bb2, ctx, outcome)

FinishReasonExecute(choice, ctx, outcome) ==
    LET bb1 == IF ctx.bb.content # <<>>
               THEN add_gpt_response_content_message(ctx.bb)
               ELSE ctx.bb
        bb2 == update_finish_reason(bb1, choice.finish_reason)
    IN IF bb2.finish_reason = "function_call"
       THEN FunctionCallBranch(bb2, ctx, outcome)
       ELSE ResetAndReturn(bb2, ctx.history, ctx)

----------------------------------------------------------------------------
(* ChoiceHandler *)

strategies == <<"Role", "Content", "Name", "Arguments", "FinishReason">>

support(s, choice) ==
    CASE s = "Role" -> RoleSupport(choice)
      [] s = "Content" -> ContentSupport(choice)
      [] s = "Name" -> NameSupport(choice)
      [] s = "Arguments" -> ArgumentsSupport(choice)
      [] s = "FinishReason" -> FinishReasonSupport(choice)

execute(s, choice, ctx, outcome) ==
    CASE s = "Role" -> RoleExecute(choice, ctx)
      [] s = "Content" -> ContentExecute(choice, ctx)
      [] s = "Name" -> NameExecute(choice, ctx)
      [] s = "Arguments" -> ArgumentsExecute(choice, ctx)
      [] s = "FinishReason" -> FinishReasonExecute(choice, ctx, outcome)

\* Mutant: the loop stops once a strategy has set whether_exit.
ContinueUntilExit(i, st) ==
    i <= Len(strategies) /\ st.ctx.raised = "none" /\ ~st.ctx.whether_exit

\* whether the loop of handle goes on to strategy i
Continue(i, st) == i <= Len(strategies) /\ st.ctx.raised = "none"

\* what the log keeps of a context: the backend, the local history and the
\* flags, as they are after a strategy's execute
Logged(ctx) ==
    [bb |-> ctx.bb, history |-> ctx.history, whether_exit |-> ctx.whether_exit,
     raised |-> ctx.raised, events |-> ctx.events, extracted |-> ctx.extracted]

RECURSIVE handle(_, _, _, _)
handle(i, choice, st, outcome) ==
    IF ~Continue(i, st) THEN st
    ELSE IF ~support(strategies[i], choice) THEN handle(i + 1, choice, st, outcome)
    ELSE LET post == execute(strategies[i], choice, st.ctx, outcome)
         IN handle(i + 1, choice,
                   [ctx |-> post,
                    log |-> Append(st.log, [s |-> strategies[i], post |-> Logged(post)])],
                   outcome)

----------------------------------------------------------------------------
(* parse_response *)

Context(bb, h) ==
    [bb |-> bb, history |-> h, whether_exit |-> FALSE, aliased |-> TRUE,
     passed |-> h, raised |-> "none", events |-> <<>>, extracted |-> NoneOpt]

Result(chunk, outcome) ==
    IF chunk = <<>>
    THEN [ctx |-> Context(bot_backend, history), log |-> <<>>]
    ELSE handle(1, chunk[1], [ctx |-> Context(bot_backend, history), log |-> <<>>], outcome)

HasFinish(chunk) == chunk # <<>> /\ chunk[1].finish_reason # "null"

ContentOf(chunk) ==
    IF chunk # <<>> /\ chunk[1].delta.content.k = "str" THEN chunk[1].delta.content.v ELSE <<>>

ArgumentsOf(chunk) ==
    IF chunk # <<>> /\ chunk[1].delta.arguments.k = "str" THEN chunk[1].delta.arguments.v ELSE <<>>

\* parse_response on a chunk, for one outcome of the called function; base is
\* the result of handling the chunk when the called function returns a pair
ParseResponse(chunk, outcome, base) ==
    /\ nfrag < MaxFragments
    /\ \E st \in {IF outcome = "returned" THEN base ELSE Result(chunk, outcome)} :
       /\ bot_backend' = st.ctx.bb
       /\ raised' = st.ctx.raised
       /\ history' = IF st.ctx.raised = "none" THEN st.ctx.history ELSE st.ctx.passed
       /\ whether_exit' = IF st.ctx.raised = "none" THEN st.ctx.whether_exit ELSE whether_exit
       /\ log' = st.log
       /\ events' = st.ctx.events
       /\ last_chunk' = chunk
       /\ nfrag' = nfrag + 1
       /\ nfinish' = IF HasFinish(chunk) THEN nfinish + 1 ELSE nfinish
       /\ seen_content' = IF nfinish = 0 /\ ~HasFinish(chunk)
                          THEN seen_content \o ContentOf(chunk) ELSE seen_content
       /\ seen_args' = IF nfinish = 0 THEN seen_args \o ArgumentsOf(chunk) ELSE seen_args

\* The history the caller passes to the first call: an earlier exchange, then
\* the entry of the answer being streamed.
InitialHistory == <<<<"user", <<"earlier answer">>>>, <<"user", <<>>>>>>

Init ==
    /\ bot_backend = [k \in DOMAIN FreshLog \cup {"finish_reason", "conversation"} |->
                        IF k = "finish_reason" THEN "new_input"
                        ELSE IF k = "conversation" THEN <<>>
                        ELSE FreshLog[k]]
    /\ history = InitialHistory
    /\ whether_exit = FALSE
    /\ raised = "none"
    /\ log = <<>>
    /\ events = <<>>
    /\ last_chunk = <<>>
    /\ nfrag = 0
    /\ nfinish = 0
    /\ seen_content = <<>>
    /\ seen_args = <<>>

\* whether handling the chunk reaches the call of lines 126-128
Invokes(chunk, base) ==
    /\ chunk # <<>>
    /\ chunk[1].finish_reason = "function_call"
    /\ base.ctx.events # <<>>

\* the outcomes of the called function that the chunk can meet
Outcomes(chunk, base) == IF Invokes(chunk, base) THEN FunctionOutcomes ELSE {"returned"}

\* The caller hands the fragments of the stream to parse_response one by
\* one.  An exception that leaves parse_response is not caught by anything in
\* this file: it ends the processing of the stream.
Next ==
    /\ nfrag < MaxFragments
    /\ raised = "none"
    /\ \E chunk \in Chunks : \E base \in {Result(chunk, "returned")} :
          \E outcome \in Outcomes(chunk, base) : ParseResponse(chunk, outcome, base)

Spec == Init /\ [][Next]_vars

----------------------------------------------------------------------------
(* Reading the state *)

Has(s) == \E i \in 1..Len(log) : log[i].s = s

Index(s) == CHOOSE i \in 1..Len(log) : log[i].s = s

\* the state strategy s left
Post(s) == log[Index(s)].post

\* the state before the call, as the first strategy finds it
Before == Logged(Context(bot_backend, history))

\* the state strategy s found, in a call entered in state c0
Pre(c0, s) == IF Index(s) = 1 THEN c0 ELSE log[Index(s) - 1].post

Executed == [i \in 1..Len(log) |-> log[i].s]

LastAnswer(h) == h[Len(h)][2]

CarriesContent(chunk) == chunk # <<>> /\ chunk[1].delta.content.k = "str"

\* the fragment names a function that is not available, or carries arguments
CarriesCall(chunk) ==
    /\ chunk # <<>>
    /\ \/ chunk[1].delta.name \notin ({"absent"} \cup available_functions)
       \/ chunk[1].delta.arguments.k # "absent"

----------------------------------------------------------------------------
(* C1 *)

C1_Accumulated == nfinish = 0 => bot_backend.content = seen_content

\* a fragment without a content delta leaves the accumulated content alone
\* and does not write it to the history
C1_NoContentStep ==
    nfinish' = 0 /\ ~CarriesContent(last_chunk')
        => bot_backend'.content = bot_backend.content /\ ~Has("Content")'

\* C1 as stated: while no fragment has carried a finish_reason, the
\* accumulated content is the concatenation of the content deltas in arrival
\* order; after every fragment with a content delta the last history entry
\* shows the accumulated content; a fragment without a content delta changes
\* neither.
C1_Original ==
    /\ [](C1_Accumulated)
    /\ [](nfinish = 0 /\ CarriesContent(last_chunk)
            => LastAnswer(history) = bot_backend.content)
    /\ [][C1_NoContentStep]_vars

\* C1 amended: the last history entry shows the accumulated content after a
\* fragment with a content delta that neither names an unavailable function
\* nor carries an arguments delta (the Name and Arguments strategies run
\* after Content and append to, or replace, the history); such a fragment
\* without a content delta returns the history unchanged.
C1_ContentReconstructed ==
    /\ [](C1_Accumulated)
    /\ [](nfinish = 0 /\ CarriesContent(last_chunk) /\ ~CarriesCall(last_chunk)
            => LastAnswer(history) = bot_backend.content)
    /\ [][C1_NoContentStep]_vars
    /\ [][nfinish' = 0 /\ ~CarriesContent(last_chunk') /\ ~CarriesCall(last_chunk')
            => history' = history]_vars

\* two content deltas have been accumulated and shown
C1_Witness ==
    /\ nfinish = 0
    /\ CarriesContent(last_chunk)
    /\ ~CarriesCall(last_chunk)
    /\ bot_backend.content = <<"a", "b">>
    /\ LastAnswer(history) = <<"a", "b">>

----------------------------------------------------------------------------
(* C2 *)

FinishIs(reason) == last_chunk # <<>> /\ last_chunk[1].finish_reason = reason

\* C2: up to the first finish fragment the accumulated argument string is
\* the concatenation of the arguments deltas in arrival order, and when that
\* fragment's finish_reason is 'function_call' the string get_code_str
\* extracts the code from is that concatenation.
C2_ArgumentsReconstructed ==
    /\ nfinish = 0 => bot_backend.function_args_str = seen_args
    /\ nfinish = 1 /\ FinishIs("function_call") /\ Has("FinishReason")
         => Post("FinishReason").extracted = Some(seen_args)

\* the code was extracted from two deltas that arrived in two fragments
C2_Witness ==
    /\ nfinish = 1 /\ FinishIs("function_call") /\ Has("FinishReason")
    /\ seen_args = <<OPEN, "x", "y", CLOSE>>
    /\ Post("FinishReason").extracted = Some(seen_args)
    /\ events # <<>>

----------------------------------------------------------------------------
(* C3 *)

Invocations == {i \in 1..Len(events) : events[i].ev = "invoke"}

FunctionMessages(bb) ==
    Len(SelectSeq(bb.conversation, LAMBDA m : m.role = <<"function">>))

C3_State ==
    /\ events # <<>> => FinishIs("function_call") /\ Has("FinishReason")
    /\ \A i \in 1..Len(log) :
         log[i].s # "FinishReason" => log[i].post.events = <<>>
    /\ Cardinality(Invocations) <= 1
    /\ \A i \in Invocations : events[i].fn \in available_functions
    /\ \A i \in 1..Len(events) :
         events[i].ev = "response_message" => i > 1 /\ events[i - 1].ev = "returned"

\* the function invoked is the one named when the FinishReason strategy began
C3_Named(c0) ==
    \A i \in Invocations :
       Has("FinishReason") /\ events[i].fn = Pre(c0, "FinishReason").bb.function_name

C3_Step ==
    /\ \E c0 \in {Before} : C3_Named(c0)'
    /\ FunctionMessages(bot_backend') \in
         {FunctionMessages(bot_backend), FunctionMessages(bot_backend) + 1}
    /\ FunctionMessages(bot_backend') # FunctionMessages(bot_backend)
         => \E i \in 1..Len(events') : events'[i].ev = "response_message"

\* C3: a function of available_functions is invoked only by the
\* FinishReason strategy of a fragment whose finish_reason is
\* 'function_call', at most once, under the accumulated function name; the
\* function-call response message is added only after the function
\* returned.
C3_BackendDrivenAtCompletion == [](C3_State) /\ [][C3_Step]_vars

\* execute_code was invoked, returned, and its response was recorded
C3_Witness ==
    /\ Len(events) = 3
    /\ events[1].ev = "invoke" /\ events[1].fn = "execute_code"
    /\ events[2].ev = "returned"
    /\ events[3].ev = "response_message"
    /\ FunctionMessages(bot_backend) = 1

----------------------------------------------------------------------------
(* C4 *)

IsReset(bb) ==
    /\ bb.content = <<>>
    /\ bb.function_name = NoneName
    /\ bb.function_args_str = <<>>
    /\ bb.display_code_block = <<>>

\* the try block of the function call ran to its end
Completed == \E i \in 1..Len(events) : events[i].ev = "response_message"

\* C4 as stated: after every fragment with a finish_reason that
\* parse_response has processed, the accumulated values are reset and the
\* finish_reason is kept.
C4_Original ==
    HasFinish(last_chunk) /\ Has("FinishReason")
       => IsReset(bot_backend) /\ bot_backend.finish_reason = last_chunk[1].finish_reason

C4_Kept(c0) ==
    HasFinish(last_chunk) /\ Has("FinishReason")
       => /\ bot_backend.finish_reason = last_chunk[1].finish_reason
          /\ IF ~FinishIs("function_call") \/ Completed
             THEN IsReset(bot_backend) /\ bot_backend.bot_history = NoneOpt
             ELSE /\ bot_backend.content = Pre(c0, "FinishReason").bb.content
                  /\ bot_backend.function_name = Pre(c0, "FinishReason").bb.function_name
                  /\ bot_backend.function_args_str =
                        Pre(c0, "FinishReason").bb.function_args_str

\* C4 amended: the accumulated values are reset when the finish_reason is
\* not 'function_call' or the function call completed (the function returned
\* a pair and its response message was recorded); when the
\* function-call branch ends in one of its except clauses, content, function
\* name and argument string stay as accumulated.  The finish_reason is kept
\* in both cases.
C4_ResetUnlessError == [][\E c0 \in {Before} : C4_Kept(c0)']_vars

\* a function call with accumulated arguments completed and the log is reset
C4_Witness ==
    /\ FinishIs("function_call") /\ Has("FinishReason") /\ Completed
    /\ nfinish = 1 /\ seen_args # <<>>
    /\ IsReset(bot_backend)

----------------------------------------------------------------------------
(* C5 *)

C5_Applies(s, choice) ==
    CASE s = "Role" -> choice.delta.role # "absent"
      [] s = "Content" -> choice.delta.content.k = "str"
      [] s = "Name" -> choice.delta.name # "absent"
      [] s = "Arguments" -> choice.delta.arguments.k # "absent"
      [] s = "FinishReason" -> choice.finish_reason # "null"

C5_Expected ==
    IF last_chunk = <<>> THEN <<>>
    ELSE SelectSeq(<<"Role", "Content", "Name", "Arguments", "FinishReason">>,
                   LAMBDA s : C5_Applies(s, last_chunk[1]))

\* C5 as stated: the strategies executed for a fragment are, in the order
\* Role, Content, Name, Arguments, FinishReason, exactly those whose
\* predicate holds of the fragment, each once.
C5_Original == Executed = C5_Expected

\* C5 amended: the same when no strategy raises; a strategy that raises
\* ends the handling of the fragment, so the executed strategies are then
\* those up to and including the one that raised.
C5_FixedSequence ==
    IF raised = "none"
    THEN Executed = C5_Expected
    ELSE /\ Len(log) >= 1 /\ Len(log) <= Len(C5_Expected)
         /\ Executed = SubSeq(C5_Expected, 1, Len(log))
         /\ log[Len(log)].post.raised = raised
         /\ \A i \in 1..(Len(log) - 1) : log[i].post.raised = "none"

\* Name set whether_exit and a later strategy of the fragment still ran
C5_Witness ==
    /\ raised = "none"
    /\ Len(log) = 2 /\ log[1].s = "Name" /\ log[2].s \in {"Arguments", "FinishReason"}
    /\ log[1].post.whether_exit

----------------------------------------------------------------------------
(* C6 *)

C6_Reported(c0) ==
    /\ FinishIs("function_call") /\ Has("FinishReason")
    /\ Pre(c0, "FinishReason").bb.function_name # "python"
    /\ parse_json(Pre(c0, "FinishReason").bb.function_args_str, TRUE) = NoneOpt
    => /\ raised = "none"
       /\ history = Append(Pre(c0, "FinishReason").history,
                           <<"None", <<"GPT generate wrong function args: ">>
                                     \o Pre(c0, "FinishReason").bb.function_args_str>>)
       /\ whether_exit
       /\ events = <<>>
       /\ FunctionMessages(bot_backend) = FunctionMessages(Pre(c0, "FinishReason").bb)

\* C6: a 'function_call' finish whose accumulated name is not 'python' and
\* whose arguments parse_json(finished=True) rejects appends the entry
\* 'GPT generate wrong function args: <args>' and sets whether_exit, without
\* invoking a function or adding a response message.
C6_WrongArgsReported == [][\E c0 \in {Before} : C6_Reported(c0)']_vars

----------------------------------------------------------------------------
(* C7 *)

C7_Name(c0) ==
    /\ last_chunk # <<>> /\ last_chunk[1].delta.name # "absent" => Has("Name")
    /\ Has("Name") =>
         LET pre == Pre(c0, "Name")
             post == Post("Name")
             name == last_chunk[1].delta.name
         IN /\ post.bb.function_name = name
            /\ post.bb.bot_history = Some(pre.history)
            /\ IF name \notin {"execute_code", "python"}
               THEN /\ post.history = Append(pre.history,
                         <<"None", <<"GPT attempted to call a function that does not exist: ",
                                     name, "\n ">>>>)
                    /\ raised = "none"
                    /\ whether_exit
               ELSE /\ post.history = pre.history
                    /\ post.whether_exit = pre.whether_exit

\* C7: the Name strategy runs for every fragment with a function name; it
\* sets the backend's function name and snapshots the current history; for
\* a name that is no key of available_functions it appends one entry naming
\* it (the message ends with a newline and a space) and parse_response
\* returns whether_exit = True; for a key it returns the history unchanged
\* and leaves whether_exit as it was.
C7_UnknownFunctionRejected == [][\E c0 \in {Before} : C7_Name(c0)']_vars

\* an unavailable function was named and the call returned whether_exit
C7_Witness ==
    /\ Has("Name") /\ last_chunk[1].delta.name = "no_such_function"
    /\ whether_exit /\ raised = "none"
    /\ LastAnswer(Post("Name").history) =
          <<"GPT attempted to call a function that does not exist: ", "no_such_function", "\n ">>

----------------------------------------------------------------------------
(* C8 *)

\* the code inside a display block
Shown(block) == SubSeq(block, 4, Len(block) - 2)

C8_Arguments(c0) ==
    Has("Arguments") =>
       LET pre == Pre(c0, "Arguments")
           post == Post("Arguments")
           args == post.bb.function_args_str
       IN IF post.bb.function_name = "python"
          THEN /\ Shown(post.bb.display_code_block) = args
               /\ post.raised = "none"
               /\ LastAnswer(post.history) =
                    LastAnswer(post.bb.bot_history[1]) \o post.bb.display_code_block
          ELSE IF parse_json(args, FALSE) = NoneOpt
          THEN /\ post.history = pre.history
               /\ post.bb.display_code_block = pre.bb.display_code_block
          ELSE Some(Shown(post.bb.display_code_block)) = parse_json(args, FALSE)

C8_Invoked(c0) ==
    Has("FinishReason") /\ FinishIs("function_call") =>
       LET pre == Pre(c0, "FinishReason")
           args == pre.bb.function_args_str
       IN IF pre.bb.function_name = "python"
          THEN Invocations = {1} /\ events[1].code = args
          ELSE \A i \in Invocations : Some(events[i].code) = parse_json(args, TRUE)

WrongArgsOutcome ==
    raised = "none" /\ LastAnswer(history)[1] = "GPT generate wrong function args: "

C8_NeverWrongArgs(c0) ==
    /\ C8_Arguments(c0)
    /\ C8_Invoked(c0)
    /\ Has("FinishReason") /\ FinishIs("function_call")
         /\ Pre(c0, "FinishReason").bb.function_name = "python"
         => ~WrongArgsOutcome

C8_WrongArgsOnlyAfterCall(c0) ==
    /\ C8_Arguments(c0)
    /\ C8_Invoked(c0)
    /\ Has("FinishReason") /\ FinishIs("function_call")
         /\ Pre(c0, "FinishReason").bb.function_name = "python"
         /\ WrongArgsOutcome
         => /\ Len(events) = 2
            /\ events[1].ev = "invoke"
            /\ events[1].code = Pre(c0, "FinishReason").bb.function_args_str
            /\ events[2].ev \in {"raised", "returned"}
            /\ history = Append(ExtendLastAnswer(Pre(c0, "FinishReason").bb.bot_history[1],
                                                 bot_backend.display_code_block),
                                <<"None", <<"GPT generate wrong function args: ">>
                                          \o bot_backend.function_args_str>>)

====
